---- MODULE Spec2Model ----
(***************************************************************************)
(* XSalsa20-Poly1305 secretbox (cbits/xsalsa20poly1305/xsalsa20poly1305.c) *)
(* as a state machine.  Buffers are sequences of bytes (TLA+ index i+1 is  *)
(* the C index i).  A uint32 is kept as the pair <<low 16 bits, high 16    *)
(* bits>> because TLC's integers stop at 2^31-1; all arithmetic on it is   *)
(* modulo 2^32 as in C.                                                    *)
(***************************************************************************)
EXTENDS Integers, Sequences, FiniteSets, TLC

VARIABLES
  fn,      \* the function the caller entered ("none" before the first call)
  pc,      \* the position of control
  cont,    \* where control goes when the running stream function returns
  k, n,    \* the key and nonce arguments
  len,     \* the mlen / clen argument
  inbuf,   \* the input buffer (m of secretbox and stream_xor, c of open)
  outbuf,  \* the output buffer (c of secretbox and the streams, m of open)
  out0,    \* what the output buffer held when the function was entered
  skind,   \* "stream": crypto_stream_salsa20 runs, "xor": crypto_stream_salsa20_xor
  skey,    \* its k argument
  snonce,  \* its n argument (8 bytes)
  dst,     \* the buffer its c argument points into: "out" or "mackey"
  rem,     \* its clen / mlen, counted down by the loop
  off,     \* how far its c (and m) pointer has advanced
  in,      \* its local in[16]
  block,   \* its local block[64]
  subkey,  \* subkey[32] of xsalsa20_stream / xsalsa20_stream_xor
  mackey,  \* subkey[32] of xsalsa20poly1305_secretbox_open (the MAC key)
  ret,     \* the value the entered function returned (read it at pc = "done")
  nhcore,  \* calls of crypto_core_hsalsa20 since the function was entered
  ncore,   \* calls of crypto_core_salsa20 since the function was entered
  nmac,    \* calls of poly1305_auth / poly1305_auth_verify since then
  sblk,    \* calls of crypto_core_salsa20 by the running stream function
  coreIn,  \* the in argument of the latest crypto_core_salsa20 call
  coreOff, \* the value of off at that call
  prev,    \* the caller's record of the call before this one
  fill,    \* the byte the caller's output buffers are filled with
  tamper   \* what the caller did to the input of this call

vars == <<fn, pc, cont, k, n, len, inbuf, outbuf, out0, skind, skey, snonce, dst,
          rem, off, in, block, subkey, mackey, ret, nhcore, ncore, nmac, sblk,
          coreIn, coreOff, prev, fill, tamper>>

(* ------------------------------ bytes ---------------------------------- *)

Byte == 0..255

Pow2(e) == CASE e = 0 -> 1 [] e = 1 -> 2 [] e = 2 -> 4 [] e = 3 -> 8
             [] e = 4 -> 16 [] e = 5 -> 32 [] e = 6 -> 64 [] e = 7 -> 128
             [] e = 8 -> 256 [] e = 9 -> 512 [] e = 10 -> 1024
             [] e = 11 -> 2048 [] e = 12 -> 4096 [] e = 13 -> 8192
             [] e = 14 -> 16384 [] e = 15 -> 32768 [] e = 16 -> 65536

RECURSIVE XorBits(_, _, _)
XorBits(a, b, nbits) ==
  IF nbits = 0 THEN 0
  ELSE ((a + b) % 2) + 2 * XorBits(a \div 2, b \div 2, nbits - 1)

XorTable == [a \in Byte |-> [b \in Byte |-> XorBits(a, b, 8)]]

\* the C operator ^ on two unsigned chars
Xor8(a, b) == XorTable[a][b]

Zeros(cnt) == [i \in 1..cnt |-> 0]

\* the bytes p[from], ..., p[from+cnt-1] of a buffer (C indices)
Slice(p, from, cnt) == [i \in 1..cnt |-> p[from + i]]

\* the buffer p with the bytes of q stored at C index at, ...
Store(p, at, q) == SubSeq(p, 1, at) \o q \o SubSeq(p, at + Len(q) + 1, Len(p))

(* ------------------------------ uint32 --------------------------------- *)

\* u + v on uint32 (wraps modulo 2^32)
Add32(u, v) ==
  LET s == u[1] + v[1]
  IN  <<s % 65536, (u[2] + v[2] + (s \div 65536)) % 65536>>

Xor16(a, b) == Xor8(a % 256, b % 256) + 256 * Xor8(a \div 256, b \div 256)

\* u ^ v on uint32
Xor32(u, v) == <<Xor16(u[1], v[1]), Xor16(u[2], v[2])>>

\* (u << c) | (u >> (32 - c)) for 0 < c < 16
RotSmall(u, c) ==
  <<((u[1] * Pow2(c)) % 65536) + (u[2] \div Pow2(16 - c)),
    ((u[2] * Pow2(c)) % 65536) + (u[1] \div Pow2(16 - c))>>

rotate(u, c) ==
  IF c < 16 THEN RotSmall(u, c)
  ELSE IF c = 16 THEN <<u[2], u[1]>>
  ELSE RotSmall(<<u[2], u[1]>>, c - 16)

\* x points at C index at of buffer p
load_littleendian(p, at) ==
  <<p[at + 1] + 256 * p[at + 2], p[at + 3] + 256 * p[at + 4]>>

\* the four bytes x[0..3] written for u
store_littleendian(u) ==
  <<u[1] % 256, u[1] \div 256, u[2] % 256, u[2] \div 256>>

(* --------------------------- Salsa20 core ------------------------------ *)

ROUNDS == 20

\* "expand 32-byte k"
sigma == <<101, 120, 112, 97, 110, 100, 32, 51,
           50, 45, 98, 121, 116, 101, 32, 107>>

\* one line "x_t ^= rotate(x_a + x_b, r)" of the loop body: <<t, a, b, r>>
RoundBody ==
  << <<4, 0, 12, 7>>,   <<8, 4, 0, 9>>,    <<12, 8, 4, 13>>,  <<0, 12, 8, 18>>,
     <<9, 5, 1, 7>>,    <<13, 9, 5, 9>>,   <<1, 13, 9, 13>>,  <<5, 1, 13, 18>>,
     <<14, 10, 6, 7>>,  <<2, 14, 10, 9>>,  <<6, 2, 14, 13>>,  <<10, 6, 2, 18>>,
     <<3, 15, 11, 7>>,  <<7, 3, 15, 9>>,   <<11, 7, 3, 13>>,  <<15, 11, 7, 18>>,
     <<1, 0, 3, 7>>,    <<2, 1, 0, 9>>,    <<3, 2, 1, 13>>,   <<0, 3, 2, 18>>,
     <<6, 5, 4, 7>>,    <<7, 6, 5, 9>>,    <<4, 7, 6, 13>>,   <<5, 4, 7, 18>>,
     <<11, 10, 9, 7>>,  <<8, 11, 10, 9>>,  <<9, 8, 11, 13>>,  <<10, 9, 8, 18>>,
     <<12, 15, 14, 7>>, <<13, 12, 15, 9>>, <<14, 13, 12, 13>>, <<15, 14, 13, 18>> >>

RECURSIVE RunBody(_, _)
RunBody(x, i) ==
  IF i > Len(RoundBody) THEN x
  ELSE LET q == RoundBody[i]
           y == [x EXCEPT ![q[1]] =
                   Xor32(x[q[1]], rotate(Add32(x[q[2]], x[q[3]]), q[4]))]
       \* the test is always true; it makes TLC compute y before it recurses
       IN  IF y[q[1]][1] >= 0 THEN RunBody(y, i + 1) ELSE x

\* for (i = ROUNDS; i > 0; i -= 2) { ... }
RECURSIVE RunRounds(_, _)
RunRounds(x, i) == IF i > 0 THEN RunRounds(RunBody(x, 1), i - 2) ELSE x

\* x0..x15 as loaded from c, k and in
LoadState(inp, key, c) ==
  [j \in 0..15 |->
     CASE j = 0  -> load_littleendian(c, 0)
       [] j = 1  -> load_littleendian(key, 0)
       [] j = 2  -> load_littleendian(key, 4)
       [] j = 3  -> load_littleendian(key, 8)
       [] j = 4  -> load_littleendian(key, 12)
       [] j = 5  -> load_littleendian(c, 4)
       [] j = 6  -> load_littleendian(inp, 0)
       [] j = 7  -> load_littleendian(inp, 4)
       [] j = 8  -> load_littleendian(inp, 8)
       [] j = 9  -> load_littleendian(inp, 12)
       [] j = 10 -> load_littleendian(c, 8)
       [] j = 11 -> load_littleendian(key, 16)
       [] j = 12 -> load_littleendian(key, 20)
       [] j = 13 -> load_littleendian(key, 24)
       [] j = 14 -> load_littleendian(key, 28)
       [] j = 15 -> load_littleendian(c, 12)]

\* the words stored at out+0, out+4, ..., out+28
HSalsaOut == <<0, 5, 10, 15, 6, 7, 8, 9>>

crypto_core_hsalsa20(inp, key, c) ==
  LET x == RunRounds(LoadState(inp, key, c), ROUNDS)
  IN  [i \in 1..32 |->
         store_littleendian(x[HSalsaOut[((i - 1) \div 4) + 1]])[((i - 1) % 4) + 1]]

crypto_core_salsa20(inp, key, c) ==
  LET j == LoadState(inp, key, c)
      x == RunRounds(j, ROUNDS)
      y == [w \in 0..15 |-> Add32(x[w], j[w])]
  IN  [i \in 1..64 |-> store_littleendian(y[(i - 1) \div 4])[((i - 1) % 4) + 1]]

(* ------------------- Poly1305 (external collaborator) ------------------ *)
(* poly1305-donna is included by the source file but is not part of it.    *)
(* It is modelled as the Poly1305 function itself, on 17 base-256 digits:  *)
(* tag = ((sum of chunk_i * r^(q-i+1)) mod 2^130-5) + s mod 2^128.         *)

\* r = key[0..16) with the clamped bits cleared, as 17 digits
PolyR(key) ==
  [j \in 1..17 |->
     IF j = 17 THEN 0
     ELSE IF j \in {4, 8, 12, 16} THEN key[j] % 16
     ELSE IF j \in {5, 9, 13} THEN key[j] - (key[j] % 4)
     ELSE key[j]]

\* digits j.. of h + c with carry u, the last digit cut to 8 bits
RECURSIVE PolyAdd(_, _, _, _)
PolyAdd(h, c, j, u) ==
  IF j > 17 THEN <<>>
  ELSE LET t == u + h[j] + c[j]
       IN  <<t % 256>> \o PolyAdd(h, c, j + 1, t \div 256)

\* one 16-byte (or shorter, final) chunk of the message with its 1 byte
PolyChunk(m, at) ==
  LET cnt == IF Len(m) - at < 16 THEN Len(m) - at ELSE 16
  IN  [j \in 1..17 |-> IF j <= cnt THEN m[at + j] ELSE IF j = cnt + 1 THEN 1 ELSE 0]

RECURSIVE PolyDot(_, _, _, _)
PolyDot(h, r, i, j) ==
  IF j > 17 THEN 0
  ELSE h[j] * (IF j <= i THEN r[i - j + 1] ELSE 320 * r[i + 18 - j])
       + PolyDot(h, r, i, j + 1)

\* carry propagation over digits j..16: <<digits, carry out>>
RECURSIVE PolyCarry(_, _, _)
PolyCarry(x, j, u) ==
  IF j > 16 THEN <<<<>>, u>>
  ELSE LET t == u + x[j]
           rest == PolyCarry(x, j + 1, t \div 256)
       IN  <<<<t % 256>> \o rest[1], rest[2]>>

\* h * r mod 2^130 - 5 (partially reduced)
PolyMul(h, r) ==
  LET x  == [i \in 1..17 |-> PolyDot(h, r, i, 1)]
      c1 == PolyCarry(x, 1, 0)
      u1 == c1[2] + x[17]
      c2 == PolyCarry(c1[1], 1, 5 * (u1 \div 4))
  IN  c2[1] \o <<c2[2] + (u1 % 4)>>

RECURSIVE PolyBlocks(_, _, _, _)
PolyBlocks(h, r, m, at) ==
  IF at >= Len(m) THEN h
  ELSE LET nh == PolyMul(PolyAdd(h, PolyChunk(m, at), 1, 0), r)
       \* the test is always true; it makes TLC compute nh before it recurses
       IN  IF nh[1] >= 0 THEN PolyBlocks(nh, r, m, at + 16) ELSE h

PolyMinusP == <<5, 0, 0, 0, 0, 0, 0, 0, 0, 0, 0, 0, 0, 0, 0, 0, 252>>

\* auth(message, key) -> 16-byte tag
poly1305_auth(m, key) ==
  LET g == PolyBlocks([j \in 1..17 |-> 0], PolyR(key), m, 0)
      h == PolyAdd(g, PolyMinusP, 1, 0)
      f == IF h[17] >= 128 THEN g ELSE h
  IN  SubSeq(PolyAdd(f, [j \in 1..17 |-> IF j <= 16 THEN key[16 + j] ELSE 0], 1, 0),
             1, 16)

\* verify(tag, message, key): 0 when the tag is the message's, -1 otherwise
poly1305_auth_verify(mac, m, key) == IF mac = poly1305_auth(m, key) THEN 0 ELSE -1

(* ----------------------- pieces of the functions ----------------------- *)

\* a local array before anything is stored in it: indeterminate bytes
Indeterminate(cnt) == [i \in 1..cnt |-> -1]

\* for (i = 0;i < 8;++i) in[i] = n[i]; for (i = 8;i < 16;++i) in[i] = 0;
StreamInitIn(nonce) == [i \in 1..16 |-> IF i <= 8 THEN nonce[i] ELSE 0]

\* u = 1; for (i = 8;i < 16;++i) { u += in[i]; in[i] = u; u >>= 8; }
\* the bytes in[i..15] after the loop has run from C index i with carry u
RECURSIVE CounterBytes(_, _, _)
CounterBytes(inp, i, u) ==
  IF i >= 16 THEN <<>>
  ELSE LET t == u + inp[i + 1]
       IN  <<t % 256>> \o CounterBytes(inp, i + 1, t \div 256)

\* the same loop without "u >>= 8": every counter byte takes the running sum
RECURSIVE CounterBytesNoShift(_, _, _)
CounterBytesNoShift(inp, i, u) ==
  IF i >= 16 THEN <<>>
  ELSE LET t == u + inp[i + 1]
       IN  <<t % 256>> \o CounterBytesNoShift(inp, i + 1, t)

IncrementCounterNoShift(inp) == SubSeq(inp, 1, 8) \o CounterBytesNoShift(inp, 8, 1)

IncrementCounter(inp) == SubSeq(inp, 1, 8) \o CounterBytes(inp, 8, 1)

\* the xor loop with "m += 64" left out: every block reads the start of m
XorBlockNoAdvance(m, at, blk, cnt) == [i \in 1..cnt |-> Xor8(m[i], blk[i])]

\* for (i = 0;i < cnt;++i) c[i] = m[i] ^ block[i];  with m advanced by at
XorBlock(m, at, blk, cnt) == [i \in 1..cnt |-> Xor8(m[at + i], blk[i])]

\* for (i = 0;i < cnt;++i) c[i] = block[i];
CopyBlock(blk, cnt) == [i \in 1..cnt |-> blk[i]]

\* the length test against the 16-byte padding of the output instead
SecretboxTooShort16(mlen) == mlen < 16

\* if (mlen < 32) return -1;
SecretboxTooShort(mlen) == mlen < 32

\* if (clen < 32) return -1;
OpenTooShort(clen) == clen < 32

\* poly1305_auth(c + 16,c + 32,mlen - 32,c): the tag stored at c + 16
SecretboxTag(c, mlen) == poly1305_auth(Slice(c, 32, mlen - 32), Slice(c, 0, 32))

\* a comparison that stops one byte before the end of the tag
OpenVerifyShortCompare(c, clen, key) ==
  IF Slice(c, 16, 15) = SubSeq(poly1305_auth(Slice(c, 32, clen - 32), key), 1, 15)
    THEN 0 ELSE -1

\* the result of the verification not looked at
OpenVerifyIgnored(c, clen, key) == 0

\* the test of the result the wrong way round
OpenVerifyNegated(c, clen, key) ==
  IF poly1305_auth_verify(Slice(c, 16, 16), Slice(c, 32, clen - 32), key) = 0
    THEN -1 ELSE 0

\* poly1305_auth_verify(c + 16,c + 32,clen - 32,subkey)
OpenVerify(c, clen, key) ==
  poly1305_auth_verify(Slice(c, 16, 16), Slice(c, 32, clen - 32), key)

\* the zeroing loop of open used in secretbox: it wipes the tag as well
SecretboxZero32(c) == Store(c, 0, Zeros(32))

\* for (i = 0;i < 16;++i) c[i] = 0;
SecretboxZero(c) == Store(c, 0, Zeros(16))

\* the zeroing loop of secretbox used in open: 16 bytes only
OpenZero16(m) == Store(m, 0, Zeros(16))

\* the zeroing loop left out
OpenZeroSkipped(m) == m

\* for (i = 0;i < 32;++i) m[i] = 0;
OpenZero(m) == Store(m, 0, Zeros(32))

(* ------------------------------ the caller ----------------------------- *)

\* the published NaCl secretbox test key and nonce, and a second pair
Key1 == <<27, 39, 85, 100, 115, 233, 133, 212, 98, 205, 81, 25, 122, 154, 70, 199,
          96, 9, 84, 158, 172, 100, 116, 242, 6, 196, 238, 8, 68, 246, 131, 137>>
Key2 == [i \in 1..32 |-> (i * 73 + 5) % 256]
Nonce1 == <<105, 105, 110, 233, 85, 182, 43, 115, 205, 98, 189, 168,
            117, 252, 115, 214, 130, 25, 224, 3, 107, 122, 11, 55>>
Nonce2 == [i \in 1..24 |-> IF i = 17 THEN 255 ELSE 0]

\* (key, nonce) pairs the caller uses
Creds == {<<Key1, Nonce1>>, <<Key2, Nonce2>>}

\* the longest message body (the bytes after the 32-byte padding) sealed
MaxBody == 33
\* the bytes a caller's buffer extends beyond the length it passes
OutSlack == 1
\* the longest keystream asked of the generator directly, in whole blocks
MaxBlocks == 256

Pattern(cnt, a, b) == [i \in 1..cnt |-> (i * a + b) % 256]

BodyLens == {0, 1, 32, MaxBody}

\* messages with the 32 zero bytes the convention asks for
PaddedMessages == {Zeros(32) \o Pattern(b, 37, 11) : b \in BodyLens}

\* what secretbox is called with: also too short, and without the zero padding
Messages == PaddedMessages \cup {Pattern(l, 3, 1) : l \in 0..31} \cup {Pattern(40, 5, 9)}

\* what open is called with when nothing was sealed
FreshCiphers == {Pattern(l, 7, 2) : l \in (0..32) \cup {40}}

Fills == {0, 173}

StreamLens == {0, 1, 63, 64, 65, 128, 64 * MaxBlocks + 5}

NoTamper == [kind |-> "none", pos |-> 0]

\* bit pos % 8 of byte pos \div 8 flipped
FlipBit(c, pos) ==
  [c EXCEPT ![(pos \div 8) + 1] = Xor8(c[(pos \div 8) + 1], Pow2(pos % 8))]

\* one bit of every byte of the tag and of the body, the bit varying with the byte
FlipPositions(clen) == {8 * i + (i % 8) : i \in 16..(clen - 1)}

\* the padding bytes [0,16) replaced
ReplacePadding(c) == Store(c, 0, Pattern(16, 9, 1))

NoCall == [fn |-> "none", ret |-> 0, len |-> 0, inbuf |-> <<>>, outbuf |-> <<>>,
           tamper |-> NoTamper]

ThisCall == [fn |-> fn, ret |-> ret, len |-> len, inbuf |-> inbuf, outbuf |-> outbuf,
             tamper |-> tamper]

Init ==
  /\ fn = "none" /\ pc = "idle" /\ cont = "none"
  /\ k = <<>> /\ n = <<>> /\ len = 0
  /\ inbuf = <<>> /\ outbuf = <<>> /\ out0 = <<>>
  /\ skind = "none" /\ skey = <<>> /\ snonce = <<>> /\ dst = "none"
  /\ rem = 0 /\ off = 0
  /\ in = Indeterminate(16) /\ block = Indeterminate(64)
  /\ subkey = Indeterminate(32) /\ mackey = Indeterminate(32)
  /\ ret = 0
  /\ nhcore = 0 /\ ncore = 0 /\ nmac = 0 /\ sblk = 0
  /\ coreIn = <<>> /\ coreOff = 0
  /\ prev = NoCall /\ fill \in Fills /\ tamper = NoTamper

\* the caller enters function f: fresh stack frames, counters at zero
Enter(f, at, key, nonce, input, l, t) ==
  /\ fn' = f /\ pc' = at
  /\ k' = key /\ n' = nonce /\ len' = l /\ inbuf' = input
  /\ out0' = [i \in 1..(l + OutSlack) |-> fill]
  /\ outbuf' = out0'
  /\ in' = Indeterminate(16) /\ block' = Indeterminate(64)
  /\ subkey' = Indeterminate(32) /\ mackey' = Indeterminate(32)
  /\ ret' = 0
  /\ nhcore' = 0 /\ ncore' = 0 /\ nmac' = 0 /\ sblk' = 0
  /\ coreIn' = <<>> /\ coreOff' = 0
  /\ prev' = ThisCall /\ tamper' = t
  /\ UNCHANGED fill

NoStream ==
  /\ skind' = "none" /\ skey' = <<>> /\ snonce' = <<>> /\ dst' = "none"
  /\ rem' = 0 /\ off' = 0 /\ cont' = "none"

\* seal a message
CallSecretbox ==
  /\ pc = "idle"
  /\ \E cr \in Creds, m \in Messages :
       Enter("secretbox", "check", cr[1], cr[2], m, Len(m), NoTamper)
  /\ NoStream

\* open something that was never sealed
CallOpenFresh ==
  /\ pc = "idle"
  /\ \E cr \in Creds, c \in FreshCiphers :
       Enter("secretbox_open", "check", cr[1], cr[2], c, Len(c),
             [kind |-> "fresh", pos |-> 0])
  /\ NoStream

\* open what secretbox produced, as it is
CallOpenSealed ==
  /\ pc = "done" /\ fn = "secretbox" /\ ret = 0
  /\ Enter("secretbox_open", "check", k, n, Slice(outbuf, 0, len), len, NoTamper)
  /\ NoStream

\* open what secretbox produced with one bit of the tag or the body flipped
CallOpenFlipped ==
  /\ pc = "done" /\ fn = "secretbox" /\ ret = 0
  /\ \E pos \in FlipPositions(len) :
       Enter("secretbox_open", "check", k, n, FlipBit(Slice(outbuf, 0, len), pos),
             len, [kind |-> "flip", pos |-> pos])
  /\ NoStream

\* open the input of the last open again with other bytes in the padding
CallOpenPadding ==
  /\ pc = "done" /\ fn = "secretbox_open" /\ len >= 16
  /\ tamper.kind \in {"none", "flip", "fresh"}
  /\ Enter("secretbox_open", "check", k, n, ReplacePadding(inbuf), len,
           [kind |-> "padding", pos |-> 0])
  /\ NoStream

\* open the first 31 bytes of the input of the last open
CallOpenTruncated ==
  /\ pc = "done" /\ fn = "secretbox_open" /\ len >= 32
  /\ tamper.kind \in {"none", "flip", "fresh"}
  /\ Enter("secretbox_open", "check", k, n, Slice(inbuf, 0, 31), 31,
           [kind |-> "truncate", pos |-> 0])
  /\ NoStream

\* ask the generator for l bytes of keystream
CallStream ==
  /\ pc = "idle"
  /\ \E cr \in Creds, l \in StreamLens :
       Enter("crypto_stream_salsa20", "st_entry", cr[1], Slice(cr[2], 16, 8),
             <<>>, l, NoTamper)
       /\ skind' = "stream" /\ skey' = cr[1] /\ snonce' = Slice(cr[2], 16, 8)
       /\ dst' = "out" /\ rem' = l /\ off' = 0 /\ cont' = "done"

\* then encrypt a message of that length under the same key and nonce
CallStreamXor ==
  /\ pc = "done" /\ fn = "crypto_stream_salsa20"
  /\ Enter("crypto_stream_salsa20_xor", "st_entry", k, n, Pattern(len, 11, 3),
           len, NoTamper)
  /\ skind' = "xor" /\ skey' = k /\ snonce' = n
  /\ dst' = "out" /\ rem' = len /\ off' = 0 /\ cont' = "done"

(* ------------------- crypto_stream_salsa20 and _xor -------------------- *)

callerVars == <<fn, k, n, len, inbuf, out0, prev, fill, tamper>>

\* the bytes stored through the c pointer at its current position
WriteDst(bytes) ==
  IF dst = "out"
    THEN outbuf' = Store(outbuf, off, bytes) /\ UNCHANGED mackey
    ELSE mackey' = Store(mackey, off, bytes) /\ UNCHANGED outbuf

\* return 0: control goes back to the caller of the stream function
StreamReturn ==
  /\ pc' = cont
  /\ ret' = IF cont = "done" THEN 0 ELSE ret
  /\ skind' = "none" /\ cont' = "none"

\* if (!clen) return 0; then in = n, 0
StreamEntry ==
  /\ pc = "st_entry"
  /\ IF rem = 0
       THEN StreamReturn /\ UNCHANGED in
       ELSE /\ in' = StreamInitIn(snonce)
            /\ pc' = "st_loop"
            /\ UNCHANGED <<ret, skind, cont>>
  /\ UNCHANGED <<callerVars, outbuf, skey, snonce, dst, rem, off, block, subkey,
                 mackey, nhcore, ncore, nmac, sblk, coreIn, coreOff>>

\* one turn of while (clen >= 64) { ... }
StreamBlock ==
  /\ pc = "st_loop" /\ rem >= 64
  /\ LET out == crypto_core_salsa20(in, skey, sigma)
     IN  IF skind = "xor"
           THEN block' = out /\ WriteDst(XorBlock(inbuf, off, out, 64))
           ELSE WriteDst(out) /\ UNCHANGED block
  /\ in' = IncrementCounter(in)
  /\ rem' = rem - 64 /\ off' = off + 64
  /\ ncore' = ncore + 1 /\ sblk' = sblk + 1
  /\ coreIn' = in /\ coreOff' = off
  /\ UNCHANGED <<callerVars, pc, cont, skind, skey, snonce, dst, subkey, ret,
                 nhcore, nmac>>

\* if (clen) { one more block, cut to clen bytes }  return 0;
StreamTail ==
  /\ pc = "st_loop" /\ rem < 64
  /\ IF rem > 0
       THEN /\ block' = crypto_core_salsa20(in, skey, sigma)
            /\ WriteDst(IF skind = "xor" THEN XorBlock(inbuf, off, block', rem)
                                         ELSE CopyBlock(block', rem))
            /\ ncore' = ncore + 1 /\ sblk' = sblk + 1
            /\ coreIn' = in /\ coreOff' = off
       ELSE UNCHANGED <<block, outbuf, mackey, ncore, sblk, coreIn, coreOff>>
  /\ StreamReturn
  /\ UNCHANGED <<callerVars, skey, snonce, dst, rem, off, in, subkey, nhcore, nmac>>

(* ---------------- xsalsa20_stream and xsalsa20_stream_xor -------------- *)

\* crypto_core_hsalsa20(subkey,n,k,sigma); return crypto_stream_salsa20*(.., n + 16, subkey)
XSalsa20 ==
  /\ pc = "hsalsa"
  /\ subkey' = crypto_core_hsalsa20(Slice(n, 0, 16), k, sigma)
  /\ nhcore' = nhcore + 1
  /\ skey' = subkey' /\ snonce' = Slice(n, 16, 8)
  /\ sblk' = 0
  /\ pc' = "st_entry"
  /\ UNCHANGED <<callerVars, cont, outbuf, skind, dst, rem, off, in, block, mackey,
                 ret, ncore, nmac, coreIn, coreOff>>

\* the call xsalsa20_stream*(c, .., clen, n, k) with c pointing into buffer d
CallXSalsa20(kind, d, l, after) ==
  /\ pc' = "hsalsa" /\ skind' = kind /\ dst' = d /\ rem' = l /\ off' = 0
  /\ cont' = after

(* ---------------------- xsalsa20poly1305_secretbox --------------------- *)

SecretboxCheck ==
  /\ fn = "secretbox" /\ pc = "check"
  /\ IF SecretboxTooShort(len)
       THEN /\ ret' = -1 /\ pc' = "done"
            /\ UNCHANGED <<cont, skind, dst, rem, off>>
       ELSE CallXSalsa20("xor", "out", len, "auth") /\ UNCHANGED ret
  /\ UNCHANGED <<callerVars, outbuf, skey, snonce, in, block, subkey, mackey,
                 nhcore, ncore, nmac, sblk, coreIn, coreOff>>

SecretboxAuth ==
  /\ fn = "secretbox" /\ pc = "auth"
  /\ outbuf' = Store(outbuf, 16, SecretboxTag(outbuf, len))
  /\ nmac' = nmac + 1
  /\ pc' = "zero"
  /\ UNCHANGED <<callerVars, cont, skind, skey, snonce, dst, rem, off, in, block,
                 subkey, mackey, ret, nhcore, ncore, sblk, coreIn, coreOff>>

SecretboxFinish ==
  /\ fn = "secretbox" /\ pc = "zero"
  /\ outbuf' = SecretboxZero(outbuf)
  /\ ret' = 0 /\ pc' = "done"
  /\ UNCHANGED <<callerVars, cont, skind, skey, snonce, dst, rem, off, in, block,
                 subkey, mackey, nhcore, ncore, nmac, sblk, coreIn, coreOff>>

(* ------------------- xsalsa20poly1305_secretbox_open ------------------- *)

OpenCheck ==
  /\ fn = "secretbox_open" /\ pc = "check"
  /\ IF OpenTooShort(len)
       THEN /\ ret' = -1 /\ pc' = "done"
            /\ UNCHANGED <<cont, skind, dst, rem, off>>
       ELSE CallXSalsa20("stream", "mackey", 32, "verify") /\ UNCHANGED ret
  /\ UNCHANGED <<callerVars, outbuf, skey, snonce, in, block, subkey, mackey,
                 nhcore, ncore, nmac, sblk, coreIn, coreOff>>

OpenAuthVerify ==
  /\ fn = "secretbox_open" /\ pc = "verify"
  /\ nmac' = nmac + 1
  /\ IF OpenVerify(inbuf, len, mackey) # 0
       THEN /\ ret' = -1 /\ pc' = "done"
            /\ UNCHANGED <<cont, skind, dst, rem, off>>
       ELSE CallXSalsa20("xor", "out", len, "zero") /\ UNCHANGED ret
  /\ UNCHANGED <<callerVars, outbuf, skey, snonce, in, block, subkey, mackey,
                 nhcore, ncore, sblk, coreIn, coreOff>>

OpenFinish ==
  /\ fn = "secretbox_open" /\ pc = "zero"
  /\ outbuf' = OpenZero(outbuf)
  /\ ret' = 0 /\ pc' = "done"
  /\ UNCHANGED <<callerVars, cont, skind, skey, snonce, dst, rem, off, in, block,
                 subkey, mackey, nhcore, ncore, nmac, sblk, coreIn, coreOff>>

(* --------------------------- specifications ---------------------------- *)

Next ==
  \/ CallSecretbox \/ CallOpenFresh \/ CallOpenSealed \/ CallOpenFlipped
  \/ CallOpenPadding \/ CallOpenTruncated
  \/ SecretboxCheck \/ SecretboxAuth \/ SecretboxFinish
  \/ OpenCheck \/ OpenAuthVerify \/ OpenFinish
  \/ XSalsa20 \/ StreamEntry \/ StreamBlock \/ StreamTail

\* the secretbox functions and everything under them
Spec == Init /\ [][Next]_vars

StreamNext == CallStream \/ CallStreamXor \/ StreamEntry \/ StreamBlock \/ StreamTail

\* the Salsa20 keystream generator called on its own
StreamSpec == Init /\ [][StreamNext]_vars

(* ------------------------------- claims -------------------------------- *)

Done(f) == pc = "done" /\ fn = f

\* j as cnt little-endian bytes
RECURSIVE LittleEndian(_, _)
LittleEndian(j, cnt) ==
  IF cnt = 0 THEN <<>> ELSE <<j % 256>> \o LittleEndian(j \div 256, cnt - 1)

\* the tag in c[16,32) is the Poly1305 tag of c[32,len) under the key in mackey
TagVerifies ==
  /\ len >= 32
  /\ \A i \in 1..32 : mackey[i] >= 0
  /\ poly1305_auth_verify(Slice(inbuf, 16, 16), Slice(inbuf, 32, len - 32), mackey) = 0

\* C1: round trip.  secretbox returns 0 for every message of 32 bytes or more, and
\* open of its output under the same nonce and key returns 0 and gives back the
\* message in every byte when the message began with 32 zero bytes.
C1_RoundTrip ==
  /\ Done("secretbox") /\ len >= 32 => ret = 0
  /\ ( /\ Done("secretbox_open") /\ tamper.kind = "none" /\ prev.fn = "secretbox"
       /\ Slice(prev.inbuf, 0, 32) = Zeros(32) )
     => ret = 0 /\ Slice(outbuf, 0, len) = prev.inbuf

C1_Witness ==
  /\ Done("secretbox_open") /\ tamper.kind = "none" /\ prev.fn = "secretbox"
  /\ Slice(prev.inbuf, 0, 32) = Zeros(32)
  /\ len > 64 /\ fill # 0
  /\ ret = 0 /\ Slice(outbuf, 0, len) = prev.inbuf

\* C2: tamper detection.  open of a sealed ciphertext with one bit flipped in the
\* tag or in the body never succeeds: it returns a non-zero value.
C2_TamperDetected ==
  Done("secretbox_open") /\ tamper.kind = "flip" /\ prev.fn = "secretbox" => ret # 0

C2_Witness ==
  /\ Done("secretbox_open") /\ tamper.kind = "flip" /\ prev.fn = "secretbox"
  /\ tamper.pos >= 8 * 64
  /\ inbuf # Slice(prev.outbuf, 0, len)
  /\ ret = -1

\* C3: verify then decrypt.  While open runs, its output buffer is as it was on
\* entry and no xor stream runs until poly1305_auth_verify has been called and has
\* accepted the tag; when the tag is not accepted, open returns failure with the
\* output buffer untouched and only the one keystream block of the MAC key made.
C3_VerifyThenDecrypt ==
  fn = "secretbox_open" =>
    /\ (outbuf # out0 \/ skind = "xor" \/ pc = "zero") => nmac = 1 /\ TagVerifies
    /\ (pc = "done" /\ nmac = 1 /\ ~TagVerifies)
         => ret # 0 /\ outbuf = out0 /\ ncore = 1 /\ nhcore = 1

C3_Witness ==
  /\ Done("secretbox_open") /\ tamper.kind = "flip" /\ fill # 0
  /\ nmac = 1 /\ ~TagVerifies
  /\ ret = -1 /\ outbuf = out0

\* C4: short input.  For a length below 32, secretbox and open return -1 straight
\* from the length test: no HSalsa20 or Salsa20 core call, no MAC call, and the
\* output buffer unchanged.
C4_ShortInput ==
  (fn \in {"secretbox", "secretbox_open"} /\ len < 32) =>
    /\ pc \in {"check", "done"}
    /\ nhcore = 0 /\ ncore = 0 /\ nmac = 0
    /\ outbuf = out0
    /\ pc = "done" => ret = -1

C4_Witness ==
  /\ Done("secretbox") /\ len = 31 /\ fill # 0
  /\ ret = -1 /\ outbuf = out0 /\ nhcore = 0 /\ ncore = 0 /\ nmac = 0

\* C5: zero prefixes.  When secretbox returns 0 its output begins with 16 zero
\* bytes, and when open returns 0 its output begins with 32 zero bytes, whatever
\* the output buffer held and whatever the input began with.
C5_ZeroPrefixes ==
  /\ Done("secretbox") /\ ret = 0 => Slice(outbuf, 0, 16) = Zeros(16)
  /\ Done("secretbox_open") /\ ret = 0 => Slice(outbuf, 0, 32) = Zeros(32)

C5_Witness ==
  /\ Done("secretbox_open") /\ ret = 0
  /\ fill # 0 /\ \A i \in 1..16 : inbuf[i] # 0
  /\ Slice(outbuf, 0, 32) = Zeros(32)

\* a local array that had something stored in it
Used(buf) == \E i \in 1..Len(buf) : buf[i] >= 0

\* C6: secret erasure.  When secretbox or open has returned, each of the HSalsa20
\* subkey, the MAC key and the keystream block that the call stored into holds
\* zeros only.
C6_SecretsErased ==
  (pc = "done" /\ fn \in {"secretbox", "secretbox_open"}) =>
    \A buf \in {subkey, mackey, block} : Used(buf) => buf = Zeros(Len(buf))

C8_BlockCounter ==
  fn \in {"crypto_stream_salsa20", "crypto_stream_salsa20_xor"} =>
    /\ sblk > 0 => /\ coreIn = Slice(n, 0, 8) \o LittleEndian(sblk - 1, 8)
                   /\ coreOff = 64 * (sblk - 1)
    /\ pc = "st_loop" => /\ in = Slice(n, 0, 8) \o LittleEndian(sblk, 8)
                         /\ off = 64 * sblk /\ rem = len - off
    /\ pc = "done" => sblk = (len + 63) \div 64

C8_Witness ==
  /\ Done("crypto_stream_salsa20") /\ len = 65
  /\ sblk = 2 /\ coreOff = 64
  /\ coreIn = Slice(n, 0, 8) \o <<1, 0, 0, 0, 0, 0, 0, 0>>

\* C9: the xor variant agrees with the keystream variant.  For the same key, nonce
\* and length L, crypto_stream_salsa20_xor writes exactly the first L bytes of its
\* output, byte i being message byte i xor keystream byte i; a final partial chunk
\* takes the leading L mod 64 bytes of one more block; for L = 0 neither variant
\* writes anything or calls the core.
C9_XorAgreesWithStream ==
  /\ Done("crypto_stream_salsa20_xor") =>
       /\ ret = 0 /\ prev.fn = "crypto_stream_salsa20" /\ prev.len = len
       /\ Len(outbuf) = Len(out0)
       /\ \A i \in 1..len : outbuf[i] = Xor8(inbuf[i], prev.outbuf[i])
       /\ \A i \in (len + 1)..Len(outbuf) : outbuf[i] = out0[i]
       /\ \A i \in 1..(len % 64) : prev.outbuf[64 * (len \div 64) + i] = block[i]
  /\ Done("crypto_stream_salsa20") =>
       /\ ret = 0 /\ Len(outbuf) = Len(out0)
       /\ \A i \in (len + 1)..Len(outbuf) : outbuf[i] = out0[i]
  /\ (pc = "done" /\ fn \in {"crypto_stream_salsa20", "crypto_stream_salsa20_xor"}
        /\ len = 0) => outbuf = out0 /\ ncore = 0

C9_Witness ==
  /\ Done("crypto_stream_salsa20_xor") /\ len = 65
  /\ ncore = 2
  /\ outbuf[65] = Xor8(inbuf[65], prev.outbuf[65])
  /\ prev.outbuf[65] = block[1]
  /\ Slice(prev.outbuf, 0, 65) # Slice(outbuf, 0, 65)

\* C10: open does not read the first 16 bytes of the ciphertext.  Opening a buffer
\* and the same buffer with other bytes in [0,16) gives the same return value and,
\* on success, the same plaintext buffer.
C10_OpenIgnoresPadding ==
  ( /\ Done("secretbox_open") /\ tamper.kind = "padding"
    /\ prev.fn = "secretbox_open" /\ prev.len = len
    /\ Slice(prev.inbuf, 16, len - 16) = Slice(inbuf, 16, len - 16) )
  => ret = prev.ret /\ (ret = 0 => outbuf = prev.outbuf)

C10_Witness ==
  /\ Done("secretbox_open") /\ tamper.kind = "padding"
  /\ prev.fn = "secretbox_open" /\ prev.tamper.kind = "none"
  /\ Slice(prev.inbuf, 0, 16) = Zeros(16) /\ Slice(inbuf, 0, 16) # Zeros(16)
  /\ fill # 0 /\ len > 32
  /\ prev.ret = 0 /\ ret = 0 /\ outbuf = prev.outbuf

====
